---- MODULE Spec2Model ----
(***************************************************************************)
(* BrowserManager (src/src/browser_manager.py): the singleton that owns    *)
(* one Playwright host, one browser and one page, guarded by one           *)
(* asyncio.Lock.  Callers are coroutines of one event loop: an action of   *)
(* this module is the run of one coroutine from one suspension point (an   *)
(* await that really waits) to the next, so everything the code does       *)
(* without awaiting is one atomic step.                                    *)
(***************************************************************************)
EXTENDS Integers, Sequences, FiniteSets, TLC

\* Bounds of the model.
NumCallers == 2      \* concurrent callers (coroutines)
MaxCalls == 3        \* calls started in one behaviour, all callers together
MaxFaults == 3       \* failed library calls and out-of-band deaths in one behaviour
MaxToolCalls == 2    \* of the calls of one behaviour, the first that can be tool calls

Callers == 1..NumCallers
None == 0

\* Exception classes the Playwright library and the runtime can raise
\* inside the initialization block.  PlaywrightTimeoutError is a subclass of
\* PlaywrightError and not of the built-in TimeoutError.
FailKinds == {"TimeoutError", "PlaywrightTimeoutError", "PlaywrightError", "Exception"}

VARIABLES
    playwright,   \* BrowserManager._playwright: None or a host id
    browser,      \* BrowserManager._browser: None or an engine id
    page,         \* BrowserManager._page: None or a page id
    locked,       \* asyncio.Lock._locked
    waiters,      \* asyncio.Lock._waiters, in arrival order
    pc,           \* where each caller's coroutine is suspended
    op,           \* the call each caller is in
    res,          \* what each caller's last call returned or raised
    context,      \* ensure_browser's local `context`: the engine that owns it
    hosts,        \* every host ever started: is it running?
    engines,      \* every engine ever launched: its host, is it connected?
    pages,        \* every page ever opened: its engine, is it closed? its url
    calls,        \* calls started so far
    faults,       \* library calls that failed and out-of-band deaths so far
    hist,         \* per caller: what the call in progress has seen and done
    last,         \* the call that completed in the step into this state, if one
                  \* did: its result and what it saw
    probe,        \* the accessor that ran in the step into this state, if one
                  \* did, and what it returned
    tool,         \* per caller: the tool handler (server.py) it is in
    fs,           \* what the tool handlers have made in the file system
    rpc,          \* the tool call accepted or answered in the step into this
                  \* state, if one was
    proc,         \* the server process (server.py, __main__): where its main
                  \* thread is, its exit code, the signals it has handled
    fn            \* a call of one of the error handling utilities (server.py):
                  \* its arguments and, once it has returned, its result

vars == <<playwright, browser, page, locked, waiters, pc, op, res, context,
          hosts, engines, pages, calls, faults, hist, last, probe, tool, fs, rpc,
          proc, fn>>

NoRes == [kind |-> "none", page |-> None]

\* What a call has seen and done, for the properties below:
\*   waited     the lock acquisitions it had to wait for
\*   prev, dead the stored page ensure_browser found, and whether that page was
\*              closed then
\*   tdPage, tdBrowser, tdHost   the slots when _cleanup_browser started
\*   tried      the steps of _cleanup_browser it attempted
\*   order      those steps in the order it attempted them
\*   broke      the library calls that raised ("init": a step of the
\*              initialization)
\*   launches   the calls of chromium.launch it made
\*   left       the slots <<_playwright, _browser, _page>> after the reset that
\*              follows _cleanup_browser
\*   post, ready   the slots, and is_initialized(), when the call returned or
\*              raised
NoHist == [waited |-> {}, prev |-> None, dead |-> FALSE,
           tdPage |-> None, tdBrowser |-> None, tdHost |-> None,
           tried |-> {}, order |-> <<>>, broke |-> {}, launches |-> 0,
           left |-> <<>>, post |-> <<>>, ready |-> FALSE]

NoLast == [op |-> "none", kind |-> "none", page |-> None, err |-> "none",
           cause |-> "none", h |-> NoHist]

\* BrowserManager._viewport_width, _viewport_height: VIEWPORT_WIDTH and
\* VIEWPORT_HEIGHT of the environment, here their defaults.
ViewportWidth == 1920
ViewportHeight == 1080
ConfiguredViewport == [width |-> ViewportWidth, height |-> ViewportHeight]

\* get_current_url's None.
NoUrl == "None"

\* No accessor ran.
NoProbe == [fn |-> "none", ready |-> FALSE, url |-> NoUrl, size |-> ConfiguredViewport]

\* No tool handler runs.  issued: the browser operations the handler has
\* awaited so far; err: the class of the exception get_page() raised.
NoTool == [name |-> "none", issued |-> <<>>, err |-> "none"]

\* The arguments of a tool call: the url, selector or path, and wait_until.
NoArgs == [a |-> <<>>, w |-> ""]

\* No tool call was accepted or answered.
\*   event    "accepted": the call passed validation and goes on;
\*            "returned": the handler returned the envelope (success, type);
\*            "escaped": an exception left the handler
\*   started  the call came in with this step; args are its arguments
\*   cls, at  the class of the exception the handler caught and the place it
\*            came from
\*   issued   the browser operations the handler awaited
NoRpc == [tool |-> "none", event |-> "none", started |-> FALSE, args |-> NoArgs,
          success |-> FALSE, type |-> "none", cls |-> "none", at |-> "none",
          issued |-> <<>>]

\* The main thread before server.run().
\*   pc        "main": in __main__, the event loop not running yet;
\*             "serving": inside server.run();
\*             "finalizing": inside asyncio.run(shutdown()) of the finally block;
\*             "exited": the process is gone
\*   code      the exit code
\*   signalled a SIGINT or SIGTERM was handled
\*   called    shutdown() has called browser_manager.cleanup()
NoProc == [pc |-> "main", code |-> 0, signalled |-> FALSE, called |-> FALSE]

\* No utility is called.
NoFn == [name |-> "none"]

\* The whole state as a record, so that the straight-line code of a handler
\* is a composition of operators.
Cur ==
    [playwright |-> playwright, browser |-> browser, page |-> page,
     locked |-> locked, waiters |-> waiters, pc |-> pc, op |-> op, res |-> res,
     context |-> context, hosts |-> hosts, engines |-> engines, pages |-> pages,
     calls |-> calls, faults |-> faults, hist |-> hist, last |-> NoLast,
     probe |-> NoProbe, tool |-> tool, fs |-> fs, rpc |-> NoRpc, proc |-> proc,
     fn |-> fn]

Commit(s) ==
    \E t \in {s} :
        /\ playwright' = t.playwright
        /\ browser' = t.browser
        /\ page' = t.page
        /\ locked' = t.locked
        /\ waiters' = t.waiters
        /\ pc' = t.pc
        /\ op' = t.op
        /\ res' = t.res
        /\ context' = t.context
        /\ hosts' = t.hosts
        /\ engines' = t.engines
        /\ pages' = t.pages
        /\ calls' = t.calls
        /\ faults' = t.faults
        /\ hist' = t.hist
        /\ last' = t.last
        /\ probe' = t.probe
        /\ tool' = t.tool
        /\ fs' = t.fs
        /\ rpc' = t.rpc
        /\ proc' = t.proc
        /\ fn' = t.fn

----------------------------------------------------------------------------
\* The Playwright library, as far as the manager uses it.

\* Page.is_closed()
IsClosed(s, g) == s.pages[g].closed

\* Browser.is_connected()
IsConnected(s, e) == s.engines[e].connected

\* The host process of async_playwright().start() is still running.
HostUp(s, h) == s.hosts[h]

\* async_playwright().start() succeeded: a new host runs.
StartHost(s) == [s EXCEPT !.hosts = Append(@, TRUE)]

\* chromium.launch() succeeded: a new connected engine of host h.
LaunchEngine(s, h) ==
    [s EXCEPT !.engines = Append(@, [host |-> h, connected |-> TRUE])]

\* The page context.new_page() opens when the context was made without the
\* viewport argument: the library's own default size.
OpenPage_LibraryViewport(s, e) ==
    [s EXCEPT !.pages = Append(@, [engine |-> e, closed |-> FALSE, url |-> "blank",
                                   viewport |-> [width |-> 1280, height |-> 720]])]

\* context.new_page() succeeded: a new open page at about:blank, of the size
\* its context was made with (new_context(viewport=...)).
OpenPage(s, e) ==
    [s EXCEPT !.pages = Append(@, [engine |-> e, closed |-> FALSE, url |-> "blank",
                                   viewport |-> ConfiguredViewport])]

\* Page.close() succeeded.
ClosePage(s, g) == [s EXCEPT !.pages[g].closed = TRUE]

\* The pages of the engines in E are closed with them.
ClosePagesOf(s, E) ==
    [s EXCEPT !.pages = [g \in DOMAIN @ |->
        IF @[g].engine \in E THEN [@[g] EXCEPT !.closed = TRUE] ELSE @[g]]]

\* Browser.close() succeeded: the engine is gone, and its pages with it.
CloseEngine(s, e) ==
    ClosePagesOf([s EXCEPT !.engines[e].connected = FALSE], {e})

\* Playwright.stop() succeeded: the host is gone, and with it the engines it
\* launched and their pages.
StopHost(s, h) ==
    LET E == {e \in DOMAIN s.engines : s.engines[e].host = h}
    IN  ClosePagesOf(
            [s EXCEPT !.hosts[h] = FALSE,
                      !.engines = [e \in DOMAIN @ |->
                          IF e \in E THEN [@[e] EXCEPT !.connected = FALSE] ELSE @[e]]],
            E)

----------------------------------------------------------------------------
\* asyncio.Lock, as `async with self._lock` uses it.

\* Lock.acquire() takes the lock at once only when it is free and nobody
\* waits for it; a waiter woken by release() is still in _waiters until it
\* runs, so nobody overtakes it.
LockFree(s) == ~s.locked /\ s.waiters = <<>>

\* Lock.release(): unlock and wake the first waiter (it stays queued until
\* it runs).
Release(s) == [s EXCEPT !.locked = FALSE]

\* The caller suspends in Lock.acquire().
Wait(s, p, at) ==
    [s EXCEPT !.waiters = Append(@, p), !.pc[p] = at, !.hist[p].waited = @ \cup {at}]

----------------------------------------------------------------------------
\* Strings (server.py).  A string is the sequence of its characters, so that
\* str.lower, str.strip, str.startswith, `in` and Path.suffix are computed on
\* the characters as Python computes them.

UpperCase ==
    <<"A","B","C","D","E","F","G","H","I","J","K","L","M","N","O","P","Q","R","S","T","U","V",
      "W","X","Y","Z">>

LowerCase ==
    <<"a","b","c","d","e","f","g","h","i","j","k","l","m","n","o","p","q","r","s","t","u","v",
      "w","x","y","z">>

\* str.lower() of one character
LowerChar(c) ==
    IF \E i \in 1..Len(UpperCase) : UpperCase[i] = c
    THEN LowerCase[CHOOSE i \in 1..Len(UpperCase) : UpperCase[i] = c]
    ELSE c

\* str.lower()
Lower(str) == [i \in 1..Len(str) |-> LowerChar(str[i])]

\* str.startswith(pre)
StartsWith(str, pre) ==
    /\ Len(pre) <= Len(str)
    /\ \A i \in 1..Len(pre) : str[i] = pre[i]

\* sub in str
Contains(str, sub) ==
    \E k \in 0..(Len(str) - Len(sub)) : \A i \in 1..Len(sub) : str[k + i] = sub[i]

Whitespace == {" ", "\t", "\n"}

\* str.strip()
Strip(str) ==
    LET I == {i \in 1..Len(str) : str[i] \notin Whitespace}
    IN  IF I = {} THEN <<>>
        ELSE SubSeq(str, CHOOSE i \in I : \A j \in I : i <= j,
                         CHOOSE i \in I : \A j \in I : j <= i)

\* str.rfind(c) + 1: the last place of the character c in str, 0 if it has none
LastIndex(str, c) ==
    LET I == {i \in 1..Len(str) : str[i] = c}
    IN  IF I = {} THEN 0 ELSE CHOOSE i \in I : \A j \in I : j <= i

\* Path(path).name, for a path that does not end with a separator
PathName(path) == SubSeq(path, LastIndex(path, "/") + 1, Len(path))

\* Path(path).suffix: from the last dot of the name, unless the name starts
\* or ends with that dot or has none
PathSuffix(path) ==
    LET name == PathName(path)
        i == LastIndex(name, ".")
    IN  IF 1 < i /\ i < Len(name) THEN SubSeq(name, i, Len(name)) ELSE <<>>

----------------------------------------------------------------------------
\* Tool handlers (server.py): inputs, validation and error classification

\* Sample inputs of the tools.
Urls ==
    {<<"h","t","t","p",":","/","/","a">>,
     <<"h","t","t","p","s",":","/","/","a">>,
     <<"a",".","c","o","m">>,
     <<"H","T","T","P",":","/","/","a">>}

WaitUntils == {"load", "domcontentloaded", "networkidle", "LOAD"}

Selectors ==
    {<<>>,
     <<" ","\t">>,
     <<"#","a">>}

Paths ==
    {<<>>,
     <<" ">>,
     <<"a",".","P","N","G">>,
     <<"a",".","t","x","t">>,
     <<".","p","n","g">>,
     <<"d","/","a",".","j","p","e","g">>}

\* The prefixes navigate accepts.
SchemeHttp ==
    <<"h","t","t","p",":","/","/">>

SchemeHttps ==
    <<"h","t","t","p","s",":","/","/">>

\* navigate's validation: TRUE when the arguments pass.
NavigateValid(url, wait_until) ==
    /\ StartsWith(url, SchemeHttp) \/ StartsWith(url, SchemeHttps)
    /\ wait_until \in {"load", "domcontentloaded", "networkidle"}

\* The selector validation without strip().
SelectorValid_NoStrip(selector) == selector # <<>>

\* click_element's, fill_input's and extract_text's validation.
SelectorValid(selector) == ~(selector = <<>> \/ Strip(selector) = <<>>)

\* valid_extensions of screenshot
ValidExtensions ==
    {<<".","p","n","g">>,
     <<".","j","p","g">>,
     <<".","j","p","e","g">>}

\* screenshot's validation.
ScreenshotValid(path) ==
    /\ ~(path = <<>> \/ Strip(path) = <<>>)
    /\ Lower(PathSuffix(path)) \in ValidExtensions

\* The error_type values of the response envelope.
ErrorTypes ==
    {"ValidationError", "NetworkError", "TimeoutError", "ElementNotFound",
     "InvalidElementState", "FileSystemError", "UnknownError"}

\* The markers parse_playwright_error looks for.
MarkNameNotResolved ==
    <<"n","e","t",":",":","e","r","r","_","n","a","m","e","_","n","o","t","_","r","e","s","o",
      "l","v","e","d">>

MarkDns ==
    <<"d","n","s">>

MarkRefused ==
    <<"n","e","t",":",":","e","r","r","_","c","o","n","n","e","c","t","i","o","n","_","r","e",
      "f","u","s","e","d">>

MarkSsl ==
    <<"s","s","l">>

MarkCertificate ==
    <<"c","e","r","t","i","f","i","c","a","t","e">>

MarkTimeout ==
    <<"t","i","m","e","o","u","t">>

MarkNotVisible ==
    <<"e","l","e","m","e","n","t"," ","i","s"," ","n","o","t"," ","v","i","s","i","b","l","e">>

MarkUnableToFind ==
    <<"u","n","a","b","l","e"," ","t","o"," ","f","i","n","d"," ","e","l","e","m","e","n","t">>

MarkNoElement ==
    <<"n","o"," ","e","l","e","m","e","n","t"," ","f","o","u","n","d">>

MarkDisabled ==
    <<"e","l","e","m","e","n","t"," ","i","s"," ","d","i","s","a","b","l","e","d">>

MarkReadonly ==
    <<"r","e","a","d","o","n","l","y">>

\* The suggestions parse_playwright_error returns.
SuggestDns ==
    <<"D","N","S"," ","l","o","o","k","u","p"," ","f","a","i","l","e","d","."," ","C","h","e",
      "c","k"," ","U","R","L"," ","s","p","e","l","l","i","n","g"," ","a","n","d"," ","i","n",
      "t","e","r","n","e","t"," ","c","o","n","n","e","c","t","i","o","n">>

SuggestRefused ==
    <<"C","o","n","n","e","c","t","i","o","n"," ","r","e","f","u","s","e","d","."," ","T","h",
      "e"," ","s","e","r","v","e","r"," ","m","a","y"," ","b","e"," ","d","o","w","n"," ","o",
      "r"," ","u","n","r","e","a","c","h","a","b","l","e">>

SuggestSsl ==
    <<"S","S","L"," ","c","e","r","t","i","f","i","c","a","t","e"," ","e","r","r","o","r",".",
      " ","T","h","e"," ","s","i","t","e"," ","m","a","y"," ","h","a","v","e"," ","s","e","c",
      "u","r","i","t","y"," ","i","s","s","u","e","s">>

SuggestTimeout ==
    <<"O","p","e","r","a","t","i","o","n"," ","t","i","m","e","d"," ","o","u","t","."," ","T",
      "r","y"," ","i","n","c","r","e","a","s","i","n","g"," ","t","i","m","e","o","u","t"," ",
      "o","r"," ","c","h","e","c","k"," ","i","f"," ","s","i","t","e"," ","i","s"," ","a","c",
      "c","e","s","s","i","b","l","e">>

SuggestNotVisible ==
    <<"E","l","e","m","e","n","t"," ","e","x","i","s","t","s"," ","b","u","t"," ","n","o","t",
      " ","v","i","s","i","b","l","e","."," ","T","r","y"," ","s","c","r","o","l","l","i","n",
      "g"," ","o","r"," ","w","a","i","t","i","n","g"," ","f","o","r"," ","i","t"," ","t","o",
      " ","a","p","p","e","a","r">>

SuggestNotFound ==
    <<"E","l","e","m","e","n","t"," ","n","o","t"," ","f","o","u","n","d"," ","w","i","t","h",
      " ","g","i","v","e","n"," ","s","e","l","e","c","t","o","r","."," ","C","h","e","c","k",
      " ","s","e","l","e","c","t","o","r"," ","s","y","n","t","a","x">>

SuggestInvalidState ==
    <<"E","l","e","m","e","n","t"," ","i","s"," ","d","i","s","a","b","l","e","d"," ","o","r",
      " ","r","e","a","d","-","o","n","l","y"," ","a","n","d"," ","c","a","n","n","o","t"," ",
      "b","e"," ","m","o","d","i","f","i","e","d">>

SuggestUnknown ==
    <<"A","n"," ","u","n","e","x","p","e","c","t","e","d"," ","e","r","r","o","r"," ","o","c",
      "c","u","r","r","e","d","."," ","C","h","e","c","k"," ","t","h","e"," ","e","r","r","o",
      "r"," ","m","e","s","s","a","g","e"," ","f","o","r"," ","d","e","t","a","i","l","s">>

\* The built-in TimeoutError and the library's: isinstance(error,
\* (TimeoutError, PlaywrightTimeoutError)).
TimeoutClasses == {"TimeoutError", "PlaywrightTimeoutError"}

\* The timeout test that looks at the message only.
IsTimeout_MessageOnly(error, error_msg) == Contains(error_msg, MarkTimeout)

\* "timeout" in error_msg or isinstance(error, (TimeoutError, PlaywrightTimeoutError))
IsTimeout(error, error_msg) ==
    Contains(error_msg, MarkTimeout) \/ error.cls \in TimeoutClasses

\* A classification by the name of the exception's class.
parse_playwright_error_ClassName(error) == [type |-> error.cls, suggestion |-> <<>>]

\* The classifier with the timeout test before the network tests.
parse_playwright_error_TimeoutFirst(error) ==
    LET error_msg == Lower(error.msg)
    IN  IF IsTimeout(error, error_msg)
        THEN [type |-> "TimeoutError",
              suggestion |-> SuggestTimeout]
        ELSE IF Contains(error_msg, MarkNameNotResolved) \/ Contains(error_msg, MarkDns)
        THEN [type |-> "NetworkError",
              suggestion |-> SuggestDns]
        ELSE IF Contains(error_msg, MarkRefused)
        THEN [type |-> "NetworkError",
              suggestion |-> SuggestRefused]
        ELSE IF Contains(error_msg, MarkSsl) \/ Contains(error_msg, MarkCertificate)
        THEN [type |-> "NetworkError",
              suggestion |-> SuggestSsl]
        ELSE IF Contains(error_msg, MarkNotVisible)
        THEN [type |-> "ElementNotFound",
              suggestion |-> SuggestNotVisible]
        ELSE IF Contains(error_msg, MarkUnableToFind) \/ Contains(error_msg, MarkNoElement)
        THEN [type |-> "ElementNotFound",
              suggestion |-> SuggestNotFound]
        ELSE IF Contains(error_msg, MarkDisabled) \/ Contains(error_msg, MarkReadonly)
        THEN [type |-> "InvalidElementState",
              suggestion |-> SuggestInvalidState]
        ELSE [type |-> "UnknownError",
              suggestion |-> SuggestUnknown]

\* parse_playwright_error(error), error an exception of class error.cls with
\* str(error) = error.msg
parse_playwright_error(error) ==
    LET error_msg == Lower(error.msg)
    IN  IF Contains(error_msg, MarkNameNotResolved) \/ Contains(error_msg, MarkDns)
        THEN [type |-> "NetworkError",
              suggestion |-> SuggestDns]
        ELSE IF Contains(error_msg, MarkRefused)
        THEN [type |-> "NetworkError",
              suggestion |-> SuggestRefused]
        ELSE IF Contains(error_msg, MarkSsl) \/ Contains(error_msg, MarkCertificate)
        THEN [type |-> "NetworkError",
              suggestion |-> SuggestSsl]
        ELSE IF IsTimeout(error, error_msg)
        THEN [type |-> "TimeoutError",
              suggestion |-> SuggestTimeout]
        ELSE IF Contains(error_msg, MarkNotVisible)
        THEN [type |-> "ElementNotFound",
              suggestion |-> SuggestNotVisible]
        ELSE IF Contains(error_msg, MarkUnableToFind) \/ Contains(error_msg, MarkNoElement)
        THEN [type |-> "ElementNotFound",
              suggestion |-> SuggestNotFound]
        ELSE IF Contains(error_msg, MarkDisabled) \/ Contains(error_msg, MarkReadonly)
        THEN [type |-> "InvalidElementState",
              suggestion |-> SuggestInvalidState]
        ELSE [type |-> "UnknownError",
              suggestion |-> SuggestUnknown]

\* Sample messages of the exceptions the library and the runtime raise.
Messages ==
    <<<<"n","e","t",":",":","E","R","R","_","N","A","M","E","_","N","O","T","_","R","E","S","O","L","V","E","D"," ","a","t"," ","h","t","t","p",":","/","/","a">>,
      <<"D","N","S"," ","f","a","i","l","u","r","e">>,
      <<"n","e","t",":",":","E","R","R","_","C","O","N","N","E","C","T","I","O","N","_","R","E","F","U","S","E","D">>,
      <<"S","S","L"," ","h","a","n","d","s","h","a","k","e"," ","f","a","i","l","e","d">>,
      <<"b","a","d"," ","C","e","r","t","i","f","i","c","a","t","e">>,
      <<"T","i","m","e","o","u","t"," ","1","0","0","0","0","m","s"," ","e","x","c","e","e","d","e","d",".">>,
      <<"E","l","e","m","e","n","t"," ","i","s"," ","n","o","t"," ","v","i","s","i","b","l","e">>,
      <<"U","n","a","b","l","e"," ","t","o"," ","f","i","n","d"," ","e","l","e","m","e","n","t">>,
      <<"N","o"," ","e","l","e","m","e","n","t"," ","f","o","u","n","d">>,
      <<"E","l","e","m","e","n","t"," ","i","s"," ","d","i","s","a","b","l","e","d">>,
      <<"f","i","e","l","d"," ","i","s"," ","r","e","a","d","o","n","l","y">>,
      <<"T","a","r","g","e","t"," ","p","a","g","e",","," ","c","o","n","t","e","x","t"," ","o","r"," ","b","r","o","w","s","e","r"," ","h","a","s"," ","b","e","e","n"," ","c","l","o","s","e","d">>,
      <<>>,
      <<"T","i","m","e","o","u","t",":"," ","e","l","e","m","e","n","t"," ","i","s"," ","n","o","t"," ","v","i","s","i","b","l","e">>,
      <<"s","s","l"," ","t","i","m","e","o","u","t"," ","d","n","s">>,
      <<"P","e","r","m","i","s","s","i","o","n"," ","d","e","n","i","e","d">>>>

\* The messages of the exceptions ensure_browser raises: its own text, around
\* the message of the exception it caught (except for a timeout).
LaunchTimedOut ==
    <<"B","r","o","w","s","e","r"," ","l","a","u","n","c","h"," ","t","i","m","e","d"," ","o",
      "u","t"," ","a","f","t","e","r"," ","3","0","0","0","0","m","s","."," ","T","r","y"," ",
      "i","n","c","r","e","a","s","i","n","g"," ","B","R","O","W","S","E","R","_","T","I","M",
      "E","O","U","T"," ","i","n"," ",".","e","n","v">>

FailedToLaunch ==
    <<"F","a","i","l","e","d"," ","t","o"," ","l","a","u","n","c","h"," ","b","r","o","w","s",
      "e","r",":"," ">>

InstallHint ==
    <<"."," ","E","n","s","u","r","e"," ","P","l","a","y","w","r","i","g","h","t"," ","b","r",
      "o","w","s","e","r","s"," ","a","r","e"," ","i","n","s","t","a","l","l","e","d"," ","w",
      "i","t","h"," ","'","p","l","a","y","w","r","i","g","h","t"," ","i","n","s","t","a","l",
      "l"," ","c","h","r","o","m","i","u","m","'">>

UnexpectedError ==
    <<"U","n","e","x","p","e","c","t","e","d"," ","e","r","r","o","r"," ","d","u","r","i","n",
      "g"," ","b","r","o","w","s","e","r"," ","i","n","i","t","i","a","l","i","z","a","t","i",
      "o","n",":"," ">>

\* The exception ensure_browser raises of class err, made from one whose
\* message is msg.
ManagerError(err, msg) ==
    CASE err = "TimeoutError" -> [cls |-> "TimeoutError", msg |-> LaunchTimedOut]
      [] err = "PlaywrightError" ->
            [cls |-> "PlaywrightError", msg |-> FailedToLaunch \o msg \o InstallHint]
      [] OTHER -> [cls |-> "RuntimeError", msg |-> UnexpectedError \o msg]

\* The message of the library's error for a page, context or browser that
\* is gone.
TargetClosedMessage ==
    <<"T","a","r","g","e","t"," ","p","a","g","e",","," ","c","o","n","t","e","x","t"," ","o",
      "r"," ","b","r","o","w","s","e","r"," ","h","a","s"," ","b","e","e","n"," ","c","l","o",
      "s","e","d">>

TargetClosed == [cls |-> "PlaywrightError", msg |-> TargetClosedMessage]

\* The classes of exceptions that reach the handlers, and the classes each is
\* an instance of.
LibraryClasses == {"PlaywrightTimeoutError", "PlaywrightError", "Exception"}

FileClasses == {"PermissionError", "OSError"}

ManagerClasses == {"TimeoutError", "PlaywrightError", "RuntimeError"}

\* Classes without their base classes.
Ancestors_Exact(c) == {c}

Ancestors(c) ==
    CASE c = "PlaywrightTimeoutError" -> {c, "PlaywrightError", "Exception"}
      [] c \in {"TimeoutError", "PermissionError"} -> {c, "OSError", "Exception"}
      [] OTHER -> {c, "Exception"}

\* The sample exceptions, and parse_playwright_error of each, computed once.
SampleErrors ==
    {TargetClosed}
    \cup {[cls |-> c, msg |-> Messages[i]] :
            c \in LibraryClasses \cup FileClasses, i \in DOMAIN Messages}
    \cup {ManagerError(c, Messages[i]) : c \in ManagerClasses, i \in DOMAIN Messages}

ParseTable == [e \in SampleErrors |-> parse_playwright_error(e)]

\* Handlers with the catch-all clause only.
ExceptClauses_ParseOnly(name) == <<[catch |-> "Exception", type |-> "parse"]>>

\* The except clauses of each handler, in their order: the class caught and
\* the error_type answered ("parse": the one parse_playwright_error gives).
ExceptClauses(name) ==
    CASE name = "navigate" ->
            <<[catch |-> "PlaywrightTimeoutError", type |-> "TimeoutError"],
              [catch |-> "Exception", type |-> "parse"]>>
      [] name \in {"click_element", "fill_input", "extract_text"} ->
            <<[catch |-> "PlaywrightTimeoutError", type |-> "ElementNotFound"],
              [catch |-> "Exception", type |-> "parse"]>>
      [] name = "screenshot" ->
            <<[catch |-> "PlaywrightTimeoutError", type |-> "TimeoutError"],
              [catch |-> "PermissionError", type |-> "FileSystemError"],
              [catch |-> "Exception", type |-> "parse"]>>
      [] OTHER ->
            <<[catch |-> "Exception", type |-> "parse"]>>

\* What the handler `name` does with the exception e raised inside its try:
\* the first clause that matches answers; with none the exception escapes.
Catch(name, e) ==
    LET cl == ExceptClauses(name)
        I == {i \in DOMAIN cl : cl[i].catch \in Ancestors(e.cls)}
    IN  IF I = {} THEN [escaped |-> TRUE, type |-> "none"]
        ELSE LET i == CHOOSE i \in I : \A j \in I : i <= j
             IN  [escaped |-> FALSE,
                  type |-> IF cl[i].type = "parse" THEN ParseTable[e].type
                           ELSE cl[i].type]

\* The browser operations each handler awaits after get_page(), in order.
Steps(name) ==
    CASE name = "navigate" -> <<"goto", "title">>
      [] name = "click_element" -> <<"click", "text_content">>
      [] name = "fill_input" -> <<"clear", "fill">>
      [] name = "extract_text" -> <<"wait_for", "text_content">>
      [] name = "screenshot" -> <<"screenshot">>
      [] OTHER -> <<"title">>

\* The handler of caller p returns or lets an exception escape: out is the
\* outcome (event, success, type, cls, at).
Respond(s, p, out) ==
    [s EXCEPT !.pc[p] = "done",
              !.op[p] = "none",
              !.res[p] = NoRes,
              !.context[p] = None,
              !.hist[p] = NoHist,
              !.tool[p] = NoTool,
              !.rpc = [@ EXCEPT !.tool = s.tool[p].name,
                                !.event = out.event,
                                !.success = out.success,
                                !.type = out.type,
                                !.cls = out.cls,
                                !.at = out.at,
                                !.issued = s.tool[p].issued]]

\* The success envelope.
Success ==
    [event |-> "returned", success |-> TRUE, type |-> "none", cls |-> "none", at |-> "none"]

\* create_error_response(type, ...), for a failure at `at`
Failure(type, cls, at) ==
    [event |-> "returned", success |-> FALSE, type |-> type, cls |-> cls, at |-> at]

\* The outcome of handler `name` when e is raised at `at`.
Caught(name, e, at) ==
    LET c == Catch(name, e)
    IN  IF c.escaped
        THEN [event |-> "escaped", success |-> FALSE, type |-> "none",
              cls |-> e.cls, at |-> at]
        ELSE Failure(c.type, e.cls, at)

\* The handler awaits its next browser operation.
Issue(s, p) ==
    LET k == Len(s.tool[p].issued) + 1
    IN  [s EXCEPT !.pc[p] = "acting",
                  !.tool[p].issued = Append(@, Steps(s.tool[p].name)[k])]

\* `await browser_manager.get_page()` is over with the result r: the handler
\* goes on to its first browser operation, or is in its except clauses.
Resume(s, p, r) ==
    IF r.kind = "page" THEN Issue(s, p)
    ELSE [s EXCEPT !.pc[p] = "raised", !.tool[p].err = r.err]

----------------------------------------------------------------------------
\* BrowserManager

\* is_initialized() that looks at the page only.
IsInitialized_PageOnly(s) ==
    /\ s.page # None
    /\ ~IsClosed(s, s.page)

\* is_initialized()
IsInitialized(s) ==
    /\ s.browser # None
    /\ IsConnected(s, s.browser)
    /\ s.page # None
    /\ ~IsClosed(s, s.page)

Slots(s) == <<s.playwright, s.browser, s.page>>

\* A caller of is_initialized() has its value.
ReadIsInitialized(s) ==
    [s EXCEPT !.probe = [NoProbe EXCEPT !.fn = "is_initialized",
                                        !.ready = IsInitialized(s)]]

\* get_current_url() that acquires the page when the manager is not ready.
GetCurrentUrl_Initializes(s) ==
    IF IsInitialized(s) /\ s.page # None
    THEN [s EXCEPT !.probe = [NoProbe EXCEPT !.fn = "get_current_url",
                                             !.url = s.pages[s.page].url]]
    ELSE [StartHost(s) EXCEPT !.playwright = Len(s.hosts) + 1,
                              !.probe = [NoProbe EXCEPT !.fn = "get_current_url"]]

\* get_current_url(): a coroutine that never suspends.
GetCurrentUrl(s) ==
    [s EXCEPT !.probe = [NoProbe EXCEPT
        !.fn = "get_current_url",
        !.url = IF IsInitialized(s) /\ s.page # None
                THEN s.pages[s.page].url ELSE NoUrl]]

\* get_viewport_size(): a coroutine that never suspends.
GetViewportSize(s) ==
    [s EXCEPT !.probe = [NoProbe EXCEPT
        !.fn = "get_viewport_size",
        !.size = IF IsInitialized(s) /\ s.page # None
                 THEN [width |-> s.pages[s.page].viewport.width,
                       height |-> s.pages[s.page].viewport.height]
                 ELSE [width |-> ViewportWidth, height |-> ViewportHeight]]]

\* A call is over: it leaves `async with`, releasing the lock, and its caller
\* has the result r (err: the class of the exception raised; cause: the class
\* of the exception it was raised from).  A caller that is a tool handler
\* runs on from its `await browser_manager.get_page()`.
Done(s, p, r) ==
    LET t == Release(
            [s EXCEPT !.res[p] = [kind |-> r.kind, page |-> r.page],
                      !.pc[p] = "done",
                      !.op[p] = "none",
                      !.context[p] = None,
                      !.hist[p] = NoHist,
                      !.last = [op |-> s.op[p], kind |-> r.kind, page |-> r.page,
                                err |-> r.err, cause |-> r.cause,
                                h |-> [s.hist[p] EXCEPT !.post = Slots(s),
                                                        !.ready = IsInitialized(s)]]])
    IN  IF s.tool[p].name = "none" THEN t ELSE Resume(t, p, r)

\* return self._page
ReturnPage(s, p) ==
    Done(s, p, [kind |-> "page", page |-> s.page, err |-> "none", cause |-> "none"])

\* The except clauses of ensure_browser: classify and re-raise; the raise
\* leaves `async with`, releasing the lock.
Classify(k) ==
    CASE k = "TimeoutError" -> "TimeoutError"
      [] k \in {"PlaywrightTimeoutError", "PlaywrightError"} -> "PlaywrightError"
      [] OTHER -> "RuntimeError"

\* A raise that leaves the lock held.
Raise_KeepsLock(s, p, k) ==
    [Done(s, p, [kind |-> "raise", page |-> None, err |-> Classify(k), cause |-> k])
        EXCEPT !.locked = TRUE]

Raise(s, p, k) ==
    Done(s, p, [kind |-> "raise", page |-> None, err |-> Classify(k), cause |-> k])

\* A step of the initialization raised an exception of class k.  It counts as
\* a fault of its own unless the resource the step needs had died before.
InitFails(s, p, k, own) ==
    Raise([s EXCEPT !.hist[p].broke = @ \cup {"init"},
                    !.faults = IF own THEN @ + 1 ELSE @], p, k)

\* What a library call can raise: anything when it fails by itself, the
\* library's own Error when the host or the engine it talks to is gone.
Raises(alive) == IF alive THEN FailKinds ELSE {"PlaywrightError"}

NeedsInit_NoClosedCheck(s) == s.page = None

\* A liveness check that asks for an initialization whatever is stored.
NeedsInit_Always(s) == TRUE

\* The liveness check of ensure_browser: is a (re-)initialization needed?
NeedsInit(s) == s.page = None \/ IsClosed(s, s.page)

\* ensure_browser calls chromium.launch and awaits it.
ToLaunch(s, p) == [s EXCEPT !.pc[p] = "launching", !.hist[p].launches = @ + 1]

\* ensure_browser that initializes whatever it finds stored.
EnsureLocked_AlwaysInit(s, p) ==
    LET t == [s EXCEPT !.hist[p].prev = s.page,
                       !.hist[p].dead = (s.page # None /\ IsClosed(s, s.page))]
    IN  IF t.playwright = None
        THEN [t EXCEPT !.pc[p] = "starting"]
        ELSE ToLaunch(t, p)

\* ensure_browser with the lock held, up to its first await or its return.
EnsureLocked(s, p) ==
    LET t == [s EXCEPT !.hist[p].prev = s.page,
                       !.hist[p].dead = (s.page # None /\ IsClosed(s, s.page))]
    IN  IF NeedsInit(t)
        THEN IF t.playwright = None
             THEN [t EXCEPT !.pc[p] = "starting"]
             ELSE ToLaunch(t, p)
        ELSE ReturnPage(t, p)

EnsureEntry_NoLock(s, p) == EnsureLocked([s EXCEPT !.locked = TRUE], p)

\* ensure_browser from its first line.
EnsureEntry(s, p) ==
    IF LockFree(s)
    THEN EnsureLocked([s EXCEPT !.locked = TRUE], p)
    ELSE Wait(s, p, "waitEnsure")

\* The state reset that follows _cleanup_browser, and what the call does next:
\* cleanup() clears the three slots and returns; restart_browser() clears the
\* browser and the page, leaves the lock and calls ensure_browser().
ResetCleanup_KeepsHost(s) == [s EXCEPT !.browser = None, !.page = None]

ResetCleanup(s) == [s EXCEPT !.playwright = None, !.browser = None, !.page = None]

ResetRestart(s) == [s EXCEPT !.browser = None, !.page = None]

Left(s, p) == [s EXCEPT !.hist[p].left = Slots(s)]

Finish(s, p) ==
    IF s.op[p] = "cleanup"
    THEN Done(Left(ResetCleanup(s), p), p,
              [kind |-> "void", page |-> None, err |-> "none", cause |-> "none"])
    ELSE EnsureEntry(Release(Left(ResetRestart(s), p)), p)

\* A third step that never stops the host.
FromStop_NoStop(s, p) == Finish(s, p)

\* _cleanup_browser, third step: stop the host if there is one.
FromStop(s, p) ==
    IF s.playwright # None
    THEN [s EXCEPT !.pc[p] = "stopping", !.hist[p].tried = @ \cup {"host"},
                   !.hist[p].order = Append(@, "host")]
    ELSE Finish(s, p)

\* The second step without the connection test.
FromBrowser_Unchecked(s, p) ==
    IF s.browser # None
    THEN [s EXCEPT !.pc[p] = "closingBrowser", !.hist[p].tried = @ \cup {"browser"},
                   !.hist[p].order = Append(@, "browser")]
    ELSE FromStop(s, p)

\* _cleanup_browser, second step: close the browser if it is connected.
FromBrowser(s, p) ==
    IF s.browser # None /\ IsConnected(s, s.browser)
    THEN [s EXCEPT !.pc[p] = "closingBrowser", !.hist[p].tried = @ \cup {"browser"},
                   !.hist[p].order = Append(@, "browser")]
    ELSE FromStop(s, p)

\* _cleanup_browser, first step: close the page if it is open.
FromPage(s, p) ==
    IF s.page # None /\ ~IsClosed(s, s.page)
    THEN [s EXCEPT !.pc[p] = "closingPage", !.hist[p].tried = @ \cup {"page"},
                   !.hist[p].order = Append(@, "page")]
    ELSE FromBrowser(s, p)

\* restart_browser / cleanup with the lock held.
TeardownLocked(s, p) ==
    FromPage([s EXCEPT !.hist[p].tdPage = s.page,
                       !.hist[p].tdBrowser = s.browser,
                       !.hist[p].tdHost = s.playwright], p)

TeardownEntry_NoLock(s, p) == TeardownLocked([s EXCEPT !.locked = TRUE], p)

\* restart_browser / cleanup from the first line.
TeardownEntry(s, p) ==
    IF LockFree(s)
    THEN TeardownLocked([s EXCEPT !.locked = TRUE], p)
    ELSE Wait(s, p, "waitTeardown")

----------------------------------------------------------------------------
\* Actions

\* The manager, the callers and the library after the modules are loaded.
ManagerInit ==
    /\ playwright = None
    /\ browser = None
    /\ page = None
    /\ locked = FALSE
    /\ waiters = <<>>
    /\ pc = [p \in Callers |-> "idle"]
    /\ op = [p \in Callers |-> "none"]
    /\ res = [p \in Callers |-> NoRes]
    /\ context = [p \in Callers |-> None]
    /\ hosts = <<>>
    /\ engines = <<>>
    /\ pages = <<>>
    /\ calls = 0
    /\ faults = 0
    /\ hist = [p \in Callers |-> NoHist]
    /\ last = NoLast
    /\ probe = NoProbe
    /\ tool = [p \in Callers |-> NoTool]
    /\ fs = {}
    /\ rpc = NoRpc

\* The server serves: the event loop of server.run() runs the callers.
Init ==
    /\ ManagerInit
    /\ proc = [NoProc EXCEPT !.pc = "serving"]
    /\ fn = NoFn

\* Callers are interchangeable coroutines: they are numbered in the order of
\* their first calls.
MayCall(p) ==
    /\ pc[p] \in {"idle", "done"}
    /\ calls < MaxCalls
    /\ \A q \in Callers : q < p => pc[q] # "idle"

\* A caller starts a call.
Begin(s, p, o) ==
    [s EXCEPT !.op[p] = o, !.res[p] = NoRes, !.hist[p] = NoHist,
              !.context[p] = None, !.calls = @ + 1]

CallEnsure(p) ==
    /\ MayCall(p)
    /\ Commit(EnsureEntry(Begin(Cur, p, "ensure"), p))

CallRestart(p) ==
    /\ MayCall(p)
    /\ Commit(TeardownEntry(Begin(Cur, p, "restart"), p))

CallCleanup(p) ==
    /\ MayCall(p)
    /\ Commit(TeardownEntry(Begin(Cur, p, "cleanup"), p))

\* A waiter woken by release() runs: it leaves the queue and holds the lock.
Granted(s, p) == [s EXCEPT !.waiters = Tail(@), !.locked = TRUE]

LockGrantedEnsure(p) ==
    /\ pc[p] = "waitEnsure"
    /\ ~locked /\ waiters # <<>> /\ Head(waiters) = p
    /\ Commit(EnsureLocked(Granted(Cur, p), p))

LockGrantedTeardown(p) ==
    /\ pc[p] = "waitTeardown"
    /\ ~locked /\ waiters # <<>> /\ Head(waiters) = p
    /\ Commit(TeardownLocked(Granted(Cur, p), p))

\* await async_playwright().start() is over.
AfterStart(s, p) ==
    LET t == StartHost(s)
    IN  ToLaunch([t EXCEPT !.playwright = Len(t.hosts)], p)

StartOk(p) ==
    /\ pc[p] = "starting"
    /\ Commit(AfterStart(Cur, p))

StartFails(p) ==
    /\ pc[p] = "starting"
    /\ faults < MaxFaults
    /\ \E k \in FailKinds : Commit(InitFails(Cur, p, k, TRUE))

\* await self._playwright.chromium.launch(...) is over.  A host that was
\* stopped launches nothing.
AfterLaunch(s, p) ==
    LET t == LaunchEngine(s, s.playwright)
    IN  [t EXCEPT !.browser = Len(t.engines), !.pc[p] = "newContext"]

LaunchOk(p) ==
    /\ pc[p] = "launching"
    /\ HostUp(Cur, playwright)
    /\ Commit(AfterLaunch(Cur, p))

LaunchFails(p) ==
    /\ pc[p] = "launching"
    /\ HostUp(Cur, playwright) => faults < MaxFaults
    /\ \E k \in Raises(HostUp(Cur, playwright)) :
        Commit(InitFails(Cur, p, k, HostUp(Cur, playwright)))

\* await self._browser.new_context(...) is over.
AfterContext(s, p) == [s EXCEPT !.context[p] = s.browser, !.pc[p] = "newPage"]

ContextOk(p) ==
    /\ pc[p] = "newContext"
    /\ IsConnected(Cur, browser)
    /\ Commit(AfterContext(Cur, p))

ContextFails(p) ==
    /\ pc[p] = "newContext"
    /\ IsConnected(Cur, browser) => faults < MaxFaults
    /\ \E k \in Raises(IsConnected(Cur, browser)) :
        Commit(InitFails(Cur, p, k, IsConnected(Cur, browser)))

\* await context.new_page() is over.
AfterNewPage(s, p) ==
    LET t == OpenPage(s, s.context[p])
    IN  ReturnPage([t EXCEPT !.page = Len(t.pages)], p)

NewPageOk(p) ==
    /\ pc[p] = "newPage"
    /\ IsConnected(Cur, context[p])
    /\ Commit(AfterNewPage(Cur, p))

NewPageFails(p) ==
    /\ pc[p] = "newPage"
    /\ IsConnected(Cur, context[p]) => faults < MaxFaults
    /\ \E k \in Raises(IsConnected(Cur, context[p])) :
        Commit(InitFails(Cur, p, k, IsConnected(Cur, context[p])))

AfterClosePage_Propagates(s, p, ok) ==
    IF ok THEN FromBrowser(ClosePage(s, s.page), p)
    ELSE Raise([s EXCEPT !.hist[p].broke = @ \cup {"page"}, !.faults = @ + 1],
               p, "PlaywrightError")

\* await self._page.close() is over; an exception is swallowed.
AfterClosePage(s, p, ok) ==
    FromBrowser(IF ok THEN ClosePage(s, s.page)
                ELSE [s EXCEPT !.hist[p].broke = @ \cup {"page"}, !.faults = @ + 1], p)

ClosePageDone(p) ==
    /\ pc[p] = "closingPage"
    /\ \E ok \in BOOLEAN :
        /\ ok \/ faults < MaxFaults
        /\ Commit(AfterClosePage(Cur, p, ok))

\* await self._browser.close() is over; an exception is swallowed.
AfterCloseBrowser(s, p, ok) ==
    FromStop(IF ok THEN CloseEngine(s, s.browser)
             ELSE [s EXCEPT !.hist[p].broke = @ \cup {"browser"}, !.faults = @ + 1], p)

CloseBrowserDone(p) ==
    /\ pc[p] = "closingBrowser"
    /\ \E ok \in BOOLEAN :
        /\ ok \/ faults < MaxFaults
        /\ Commit(AfterCloseBrowser(Cur, p, ok))

\* await self._playwright.stop() is over; an exception is swallowed.
AfterStop(s, p, ok) ==
    Finish(IF ok THEN StopHost(s, s.playwright)
           ELSE [s EXCEPT !.hist[p].broke = @ \cup {"host"}, !.faults = @ + 1], p)

StopDone(p) ==
    /\ pc[p] = "stopping"
    /\ \E ok \in BOOLEAN :
        /\ ok \/ faults < MaxFaults
        /\ Commit(AfterStop(Cur, p, ok))

\* A caller that was handed a page navigates it (page.goto).
Goto(p) ==
    /\ pc[p] = "done"
    /\ res[p].kind = "page"
    /\ res[p].page = page
    /\ ~IsClosed(Cur, page)
    /\ IsConnected(Cur, pages[page].engine)
    /\ pages[page].url = "blank"
    /\ pages' = [pages EXCEPT ![res[p].page].url = "site"]
    /\ last' = NoLast
    /\ probe' = NoProbe
    /\ rpc' = NoRpc
    /\ UNCHANGED <<playwright, browser, page, locked, waiters, pc, op, res,
                   context, hosts, engines, calls, faults, hist, tool, fs, proc, fn>>

\* Out of band: the manager's page dies (a tab crash) while its engine stays
\* connected.
PageCrash ==
    /\ page # None
    /\ ~pages[page].closed
    /\ faults < MaxFaults
    /\ pages' = [pages EXCEPT ![page].closed = TRUE]
    /\ faults' = faults + 1
    /\ last' = NoLast
    /\ probe' = NoProbe
    /\ rpc' = NoRpc
    /\ UNCHANGED <<playwright, browser, page, locked, waiters, pc, op, res,
                   context, hosts, engines, calls, hist, tool, fs, proc, fn>>

\* Out of band: the manager's engine disconnects; the library may or may not
\* have marked its pages closed when the manager looks next.
EngineDisconnect ==
    /\ browser # None
    /\ engines[browser].connected
    /\ faults < MaxFaults
    /\ \E marks \in BOOLEAN :
        LET t == [Cur EXCEPT !.engines[browser].connected = FALSE, !.faults = @ + 1]
        IN  Commit(IF marks THEN ClosePagesOf(t, {browser}) ELSE t)

Next ==
    \/ \E p \in Callers : CallEnsure(p)
    \/ \E p \in Callers : CallRestart(p)
    \/ \E p \in Callers : CallCleanup(p)
    \/ \E p \in Callers : LockGrantedEnsure(p)
    \/ \E p \in Callers : LockGrantedTeardown(p)
    \/ \E p \in Callers : StartOk(p)
    \/ \E p \in Callers : StartFails(p)
    \/ \E p \in Callers : LaunchOk(p)
    \/ \E p \in Callers : LaunchFails(p)
    \/ \E p \in Callers : ContextOk(p)
    \/ \E p \in Callers : ContextFails(p)
    \/ \E p \in Callers : NewPageOk(p)
    \/ \E p \in Callers : NewPageFails(p)
    \/ \E p \in Callers : ClosePageDone(p)
    \/ \E p \in Callers : CloseBrowserDone(p)
    \/ \E p \in Callers : StopDone(p)
    \/ \E p \in Callers : Goto(p)
    \/ PageCrash
    \/ EngineDisconnect

Spec == Init /\ [][Next]_vars

----------------------------------------------------------------------------
\* Fair scheduling: the event loop runs a coroutine that is ready, and every
\* awaited library call comes to an end, by returning or by raising: while
\* some caller can take a step, a step is taken.

\* The steps caller p can take once its call has begun.
Step(p) ==
    \/ LockGrantedEnsure(p)
    \/ LockGrantedTeardown(p)
    \/ StartOk(p)
    \/ StartFails(p)
    \/ LaunchOk(p)
    \/ LaunchFails(p)
    \/ ContextOk(p)
    \/ ContextFails(p)
    \/ NewPageOk(p)
    \/ NewPageFails(p)
    \/ ClosePageDone(p)
    \/ CloseBrowserDone(p)
    \/ StopDone(p)

FairNext ==
    \/ \E p \in Callers : CallEnsure(p)
    \/ \E p \in Callers : CallRestart(p)
    \/ \E p \in Callers : CallCleanup(p)
    \/ \E p \in Callers : Step(p)
    \/ PageCrash
    \/ EngineDisconnect

FairSpec ==
    /\ Init
    /\ [][FairNext]_vars
    /\ WF_vars(\E p \in Callers : Step(p))

----------------------------------------------------------------------------
\* The accessors, called by any coroutine at any time between two steps of
\* the others.  They read _browser and _page only, which restart_browser
\* treats as cleanup followed by ensure_browser do: the callers here acquire
\* and clean up.

ProbeIsInitialized == \E s \in {ReadIsInitialized(Cur)} : Commit(s)

ProbeCurrentUrl == \E s \in {GetCurrentUrl(Cur)} : Commit(s)

ProbeViewportSize == \E s \in {GetViewportSize(Cur)} : Commit(s)

AccessNext ==
    \/ \E p \in Callers : CallEnsure(p)
    \/ \E p \in Callers : CallCleanup(p)
    \/ \E p \in Callers : LockGrantedEnsure(p)
    \/ \E p \in Callers : LockGrantedTeardown(p)
    \/ \E p \in Callers : StartOk(p)
    \/ \E p \in Callers : StartFails(p)
    \/ \E p \in Callers : LaunchOk(p)
    \/ \E p \in Callers : LaunchFails(p)
    \/ \E p \in Callers : ContextOk(p)
    \/ \E p \in Callers : ContextFails(p)
    \/ \E p \in Callers : NewPageOk(p)
    \/ \E p \in Callers : NewPageFails(p)
    \/ \E p \in Callers : ClosePageDone(p)
    \/ \E p \in Callers : CloseBrowserDone(p)
    \/ \E p \in Callers : StopDone(p)
    \/ \E p \in Callers : Goto(p)
    \/ PageCrash
    \/ EngineDisconnect
    \/ ProbeIsInitialized
    \/ ProbeCurrentUrl
    \/ ProbeViewportSize

AccessSpec == Init /\ [][AccessNext]_vars

----------------------------------------------------------------------------
\* The tool handlers (server.py): they run as coroutines of the same event
\* loop as the direct callers of the manager.

\* The tool calls are those of one client, which sends them one after the
\* other: they are the first caller's; the other callers use the manager
\* directly, concurrently with the handlers.
MayCallTool(p) == p = 1 /\ MayCall(p) /\ calls < MaxToolCalls

\* A tool call comes in.
Accept(s, p, name, args) ==
    [Begin(s, p, "ensure") EXCEPT
        !.tool[p] = [NoTool EXCEPT !.name = name],
        !.rpc = [NoRpc EXCEPT !.tool = name, !.event = "accepted",
                              !.started = TRUE, !.args = args]]

\* page = await browser_manager.get_page()
GetPage(s, p) == EnsureEntry(s, p)

\* The validation failed: the handler returns at once.
Invalid(s, p) == Respond(s, p, Failure("ValidationError", "none", "validation"))

\* navigate(url, wait_until) up to its first await or its return
Navigate(s, p, url, wait_until) ==
    LET t == Accept(s, p, "navigate", [a |-> url, w |-> wait_until])
    IN  IF NavigateValid(url, wait_until) THEN GetPage(t, p) ELSE Invalid(t, p)

\* click_element, fill_input, extract_text (selector) likewise
WithSelector(s, p, name, selector) ==
    LET t == Accept(s, p, name, [a |-> selector, w |-> ""])
    IN  IF SelectorValid(selector) THEN GetPage(t, p) ELSE Invalid(t, p)

\* screenshot(path) likewise; mk is what path_obj.parent.mkdir(...) comes
\* to: Success, or the handler's outcome for the exception it raises
Screenshot(s, p, path, mk) ==
    LET t == Accept(s, p, "screenshot", [a |-> path, w |-> ""])
    IN  IF ~ScreenshotValid(path) THEN Invalid(t, p)
        ELSE IF mk = Success THEN GetPage([t EXCEPT !.fs = @ \cup {"parent"}], p)
        ELSE Respond([t EXCEPT !.faults = @ + 1], p, mk)

\* get_page_info() likewise
GetPageInfo(s, p) == GetPage(Accept(s, p, "get_page_info", NoArgs), p)

CallNavigate(p) ==
    /\ MayCallTool(p)
    /\ \E url \in Urls, wait_until \in WaitUntils :
        Commit(Navigate(Cur, p, url, wait_until))

CallWithSelector(p) ==
    /\ MayCallTool(p)
    /\ \E name \in {"click_element", "fill_input", "extract_text"}, selector \in Selectors :
        Commit(WithSelector(Cur, p, name, selector))

CallScreenshot(p) ==
    /\ MayCallTool(p)
    /\ \E path \in Paths :
        \E mk \in {Success} \cup (IF faults < MaxFaults
                                 THEN {Caught("screenshot", [cls |-> c, msg |-> Messages[i]], "mkdir") :
                                          c \in FileClasses, i \in DOMAIN Messages}
                                 ELSE {}) :
            Commit(Screenshot(Cur, p, path, mk))

CallGetPageInfo(p) ==
    /\ MayCallTool(p)
    /\ Commit(GetPageInfo(Cur, p))

\* get_page() raised: the handler's except clauses answer.  The exception is
\* the one ensure_browser made from an exception with some message.
GetPageRaised(p) ==
    /\ pc[p] = "raised"
    /\ \E out \in {Caught(tool[p].name, ManagerError(tool[p].err, Messages[i]), "get_page") :
                        i \in DOMAIN Messages} :
        Commit(Respond(Cur, p, out))

\* The page the handler holds can still be worked with.
PageLive(s, g) == ~IsClosed(s, g) /\ IsConnected(s, s.pages[g].engine)

\* The browser operation the handler awaits.
Awaited(s, p) == s.tool[p].issued[Len(s.tool[p].issued)]

\* What a browser operation can raise: anything when it fails by itself (a
\* screenshot also when it writes its file), the library's error for a closed
\* target when the page or its engine is gone.
StepErrors(live, step) ==
    IF live
    THEN {[cls |-> c, msg |-> Messages[i]] :
            c \in LibraryClasses \cup (IF step = "screenshot" THEN {"PermissionError"} ELSE {}),
            i \in DOMAIN Messages}
    ELSE {TargetClosed}

\* The awaited operation succeeded: goto leaves the page at the site,
\* screenshot leaves its file; the handler awaits its next operation or
\* returns the success envelope.
AfterStep(s, p) ==
    LET step == Awaited(s, p)
        g == s.res[p].page
        u == CASE step = "goto" -> [s EXCEPT !.pages[g].url = "site"]
               [] step = "screenshot" -> [s EXCEPT !.fs = @ \cup {"file"}]
               [] OTHER -> s
    IN  IF Len(u.tool[p].issued) < Len(Steps(u.tool[p].name))
        THEN Issue(u, p)
        ELSE Respond(u, p, Success)

StepOk(p) ==
    /\ pc[p] = "acting"
    /\ PageLive(Cur, res[p].page)
    /\ Commit(AfterStep(Cur, p))

\* The awaited operation, failing, is awaited once more.
StepFailed_Retries(s, p, out, own) ==
    LET step == Awaited(s, p)
        t == [s EXCEPT !.faults = IF own THEN @ + 1 ELSE @]
    IN  IF Len(SelectSeq(s.tool[p].issued, LAMBDA x : x = step)) < 2
        THEN [t EXCEPT !.tool[p].issued = Append(@, step)]
        ELSE Respond(t, p, out)

\* The awaited operation raised: the handler's except clauses answer with
\* the outcome out.
StepFailed(s, p, out, own) ==
    Respond([s EXCEPT !.faults = IF own THEN @ + 1 ELSE @], p, out)

StepFails(p) ==
    /\ pc[p] = "acting"
    /\ PageLive(Cur, res[p].page) => faults < MaxFaults
    /\ \E out \in {Caught(tool[p].name, e, Awaited(Cur, p)) :
                        e \in StepErrors(PageLive(Cur, res[p].page), Awaited(Cur, p))} :
        Commit(StepFailed(Cur, p, out, PageLive(Cur, res[p].page)))

ToolNext ==
    \/ \E p \in Callers : CallNavigate(p)
    \/ \E p \in Callers : CallWithSelector(p)
    \/ \E p \in Callers : CallScreenshot(p)
    \/ \E p \in Callers : CallGetPageInfo(p)
    \/ \E p \in Callers : CallEnsure(p)
    \/ \E p \in Callers : LockGrantedEnsure(p)
    \/ \E p \in Callers : StartOk(p)
    \/ \E p \in Callers : StartFails(p)
    \/ \E p \in Callers : LaunchOk(p)
    \/ \E p \in Callers : LaunchFails(p)
    \/ \E p \in Callers : ContextOk(p)
    \/ \E p \in Callers : ContextFails(p)
    \/ \E p \in Callers : NewPageOk(p)
    \/ \E p \in Callers : NewPageFails(p)
    \/ \E p \in Callers : GetPageRaised(p)
    \/ \E p \in Callers : StepOk(p)
    \/ \E p \in Callers : StepFails(p)
    \/ PageCrash
    \/ EngineDisconnect

ToolSpec == Init /\ [][ToolNext]_vars

----------------------------------------------------------------------------
\* The server process (server.py, __main__): server.run() runs the event loop
\* that runs the callers; SIGINT and SIGTERM are handled by signal_handler,
\* which creates a task that runs shutdown(); whenever server.run() is over
\* the finally block runs shutdown() in an event loop of its own.

\* The coroutine asyncio.run(shutdown()) runs: the tasks of the closed loop
\* are gone, it takes the place of the first.
Main == 1

\* The event loop is closed: its tasks are cancelled.  CancelledError is no
\* Exception: it leaves a coroutine through its `async with`, which releases
\* the lock, and through Lock.acquire(), which leaves the queue; no except
\* clause of the manager catches it and no slot is reset.
CancelAll(s) ==
    [s EXCEPT !.pc = [p \in Callers |-> "cancelled"],
              !.op = [p \in Callers |-> "none"],
              !.res = [p \in Callers |-> NoRes],
              !.context = [p \in Callers |-> None],
              !.hist = [p \in Callers |-> NoHist],
              !.tool = [p \in Callers |-> NoTool],
              !.waiters = <<>>,
              !.locked = FALSE]

\* The finally block that leaves without shutdown().
Finalize_NoCleanup(s, code) ==
    [CancelAll(s) EXCEPT !.proc.pc = "finalizing", !.proc.code = code,
                         !.pc[Main] = "done"]

\* The finally block: asyncio.run(shutdown()), up to the first await of
\* cleanup() or to its return.
Finalize(s, code) ==
    LET t == [CancelAll(s) EXCEPT !.proc.pc = "finalizing", !.proc.code = code,
                                  !.proc.called = TRUE, !.op[Main] = "cleanup"]
    IN  TeardownEntry(t, Main)

\* signal_handler with an event loop running: asyncio.create_task(shutdown(...)).
CreateTask(s, p) ==
    [Begin(s, p, "cleanup") EXCEPT !.pc[p] = "created",
                                   !.proc.signalled = TRUE]

\* shutdown() of a task, up to the first await of cleanup() or to its return.
Shutdown(s, p) == TeardownEntry([s EXCEPT !.proc.called = TRUE], p)

\* asyncio.run(shutdown()) returns without waiting for shutdown().
MainDone_NoWait(s) == TRUE

\* asyncio.run(shutdown()) returns when shutdown() has returned.
MainDone(s) == s.pc[Main] = "done"

\* server.run() starts the event loop.
ServerRuns ==
    /\ proc.pc = "main"
    /\ Commit([Cur EXCEPT !.proc.pc = "serving"])

\* A signal before the loop runs: asyncio.create_task raises RuntimeError in
\* the main thread, `except Exception` calls sys.exit(1), finally runs.
SignalBeforeLoop ==
    /\ proc.pc = "main"
    /\ Commit(Finalize([Cur EXCEPT !.proc.signalled = TRUE], 1))

\* A task can be created for the signal: a caller of the model is free for it.
MaySignal(p) ==
    \/ proc.pc = "serving" /\ MayCall(p)
    \/ /\ proc.pc = "finalizing"
       /\ p # Main
       /\ pc[p] \in {"cancelled", "done"}
       /\ calls < MaxCalls
       /\ \A q \in Callers : (q < p /\ q # Main) => pc[q] \notin {"cancelled", "done"}

SignalHandled(p) ==
    /\ MaySignal(p)
    /\ Commit(CreateTask(Cur, p))

ShutdownRuns(p) ==
    /\ pc[p] = "created"
    /\ Commit(Shutdown(Cur, p))

\* server.run() is over: it returned (code 0), or raised KeyboardInterrupt
\* (0) or an Exception (sys.exit(1)); the finally block runs.
ServerStops ==
    /\ proc.pc = "serving"
    /\ \E code \in {0, 1} : Commit(Finalize(Cur, code))

\* asyncio.run() has returned, closing its loop; the process exits.
Exit ==
    /\ proc.pc = "finalizing"
    /\ MainDone(Cur)
    /\ Commit([CancelAll(Cur) EXCEPT !.proc.pc = "exited"])

\* One client calls while the server serves, one call after the other; the
\* tool handlers acquire the page and never restart.
ServeEnsure(p) == p = 1 /\ proc.pc = "serving" /\ CallEnsure(p)

ShutdownNext ==
    \/ ServerRuns
    \/ SignalBeforeLoop
    \/ \E p \in Callers : SignalHandled(p)
    \/ \E p \in Callers : ShutdownRuns(p)
    \/ ServerStops
    \/ Exit
    \/ \E p \in Callers : ServeEnsure(p)
    \/ \E p \in Callers : LockGrantedEnsure(p)
    \/ \E p \in Callers : LockGrantedTeardown(p)
    \/ \E p \in Callers : StartOk(p)
    \/ \E p \in Callers : StartFails(p)
    \/ \E p \in Callers : LaunchOk(p)
    \/ \E p \in Callers : LaunchFails(p)
    \/ \E p \in Callers : ContextOk(p)
    \/ \E p \in Callers : ContextFails(p)
    \/ \E p \in Callers : NewPageOk(p)
    \/ \E p \in Callers : NewPageFails(p)
    \/ \E p \in Callers : ClosePageDone(p)
    \/ \E p \in Callers : CloseBrowserDone(p)
    \/ \E p \in Callers : StopDone(p)
    \/ PageCrash
    \/ EngineDisconnect

ShutdownInit ==
    /\ ManagerInit
    /\ proc = NoProc
    /\ fn = NoFn

\* The event loop runs the tasks that are ready: of the tasks created, one
\* runs.
ShutdownSpec ==
    /\ ShutdownInit
    /\ [][ShutdownNext]_vars
    /\ WF_vars(\E p \in Callers : ShutdownRuns(p))

----------------------------------------------------------------------------
\* The error handling utilities (server.py), called with sample arguments.

MaxMarks == 2        \* markers in one sample message

\* The markers, in the order parse_playwright_error looks for them.
Markers ==
    <<MarkNameNotResolved, MarkDns, MarkRefused, MarkSsl, MarkCertificate, MarkTimeout,
      MarkNotVisible, MarkUnableToFind, MarkNoElement, MarkDisabled, MarkReadonly>>

\* str.upper() of one character, and of a string: the engine writes its
\* net:: codes in capitals.
UpperChar(c) ==
    IF \E i \in 1..Len(LowerCase) : LowerCase[i] = c
    THEN UpperCase[CHOOSE i \in 1..Len(LowerCase) : LowerCase[i] = c]
    ELSE c

Upper(str) == [i \in 1..Len(str) |-> UpperChar(str[i])]

\* The sequences of distinct markers a sample message is made of.
MarkSeqs ==
    UNION {{ms \in [1..n -> DOMAIN Markers] : \A i, j \in 1..n : ms[i] = ms[j] => i = j} :
            n \in 0..MaxMarks}

\* The text every sample message starts with; it holds no marker.
BaseText ==
    <<"O","p","e","r","a","t","i","o","n"," ","t","i","m","e","d"," ","o","u","t">>

\* A sample message: the base text, then the markers ms, each after "; ", in
\* capitals or not.
RECURSIVE JoinMarks(_, _)
JoinMarks(ms, upper) ==
    IF ms = <<>> THEN <<>>
    ELSE <<";", " ">> \o (IF upper THEN Upper(Markers[Head(ms)]) ELSE Markers[Head(ms)])
                      \o JoinMarks(Tail(ms), upper)

SampleMessage(ms, upper) == BaseText \o JoinMarks(ms, upper)

\* The classes of the sample exceptions.
SampleClasses == {"Exception", "PlaywrightError", "TimeoutError", "PlaywrightTimeoutError"}

\* The calls of parse_playwright_error(error): error of class cls, its message
\* made of the markers marks.
ParseCalls ==
    {[name |-> "parse_playwright_error", cls |-> c, marks |-> ms, upper |-> u,
      msg |-> SampleMessage(ms, u), done |-> FALSE,
      out |-> [type |-> "none", suggestion |-> <<>>]] :
        c \in SampleClasses, ms \in MarkSeqs, u \in BOOLEAN}

\* Sample **kwargs of create_error_response: none, those the handlers pass,
\* and fields named like the standard ones that are no parameters.
SampleKwargs ==
    {<<>>,
     [url |-> <<"a",".","c","o","m">>],
     [selector |-> <<" ","\t">>],
     [path |-> <<"a",".","t","x","t">>],
     [success |-> TRUE],
     [error |-> <<"x">>]}

\* The calls of create_error_response(error_type, message, suggestion, **kwargs).
CreateCalls ==
    {[name |-> "create_error_response", error_type |-> ty, message |-> m,
      suggestion |-> sg, kwargs |-> kw, done |-> FALSE, out |-> <<>>] :
        ty \in ErrorTypes,
        m \in {Messages[6], Messages[13]},
        sg \in {SuggestTimeout, SuggestUnknown},
        kw \in SampleKwargs}

\* create_error_response: the dict display, in which a key of **kwargs
\* replaces the same key written before it.
create_error_response(error_type, message, suggestion, kwargs) ==
    LET std == [success |-> FALSE, error |-> message, error_type |-> error_type,
                suggestion |-> suggestion]
    IN  [k \in DOMAIN std \cup DOMAIN kwargs |->
            IF k \in DOMAIN kwargs THEN kwargs[k] ELSE std[k]]

\* Everything but fn.
others ==
    <<playwright, browser, page, locked, waiters, pc, op, res, context, hosts, engines,
      pages, calls, faults, hist, last, probe, tool, fs, rpc, proc>>

ApplyParse ==
    /\ fn.name = "parse_playwright_error"
    /\ ~fn.done
    /\ fn' = [fn EXCEPT !.done = TRUE,
                        !.out = parse_playwright_error([cls |-> fn.cls, msg |-> fn.msg])]
    /\ UNCHANGED others

ApplyCreate ==
    /\ fn.name = "create_error_response"
    /\ ~fn.done
    /\ fn' = [fn EXCEPT !.done = TRUE,
                        !.out = create_error_response(fn.error_type, fn.message,
                                                      fn.suggestion, fn.kwargs)]
    /\ UNCHANGED others

ErrorInit ==
    /\ ManagerInit
    /\ proc = [NoProc EXCEPT !.pc = "serving"]
    /\ fn \in ParseCalls \cup CreateCalls

ErrorNext ==
    \/ ApplyParse
    \/ ApplyCreate

ErrorSpec == ErrorInit /\ [][ErrorNext]_vars

----------------------------------------------------------------------------
\* Properties

InitPcs == {"starting", "launching", "newContext", "newPage"}

TeardownPcs == {"closingPage", "closingBrowser", "stopping"}

Alive == {e \in DOMAIN engines : engines[e].connected}

\* Nothing has failed, died or been torn down, and no restart or cleanup is
\* in progress: the manager has only seen acquisitions since it was Absent.
ColdStart ==
    /\ faults = 0
    /\ \A p \in Callers : op[p] \in {"none", "ensure"}
    /\ \A g \in DOMAIN pages : ~pages[g].closed
    /\ \A e \in DOMAIN engines : engines[e].connected
    /\ \A h \in DOMAIN hosts : hosts[h]

\* C1: concurrent first acquisitions of an Absent manager, with every library
\* call succeeding, launch one engine in total and all return the one stored
\* page; a caller that arrives while another initializes waits for the lock.
C1_AtMostOneLaunch ==
    ColdStart =>
        /\ Len(engines) <= 1
        /\ Len(pages) <= 1
        /\ \A p \in Callers : res[p].kind # "raise"
        /\ \A p \in Callers :
              res[p].kind = "page" =>
                  Len(engines) = 1 /\ page # None /\ res[p].page = page
        /\ \A p, q \in Callers :
              (p # q /\ pc[p] \in InitPcs /\ op[q] = "ensure") => pc[q] = "waitEnsure"

\* Every caller holds the same page after one launch, and the call that
\* completed last had waited for the lock while another caller initialized.
C1_Witness ==
    /\ ColdStart
    /\ Len(engines) = 1
    /\ \A p \in Callers : pc[p] = "done" /\ res[p].kind = "page" /\ res[p].page = page
    /\ last.op = "ensure"
    /\ "waitEnsure" \in last.h.waited

\* C2: at most one engine launched by the manager is alive (connected) in
\* every reachable state.
C2_OneEngineAlive == Cardinality(Alive) <= 1

\* C3: restart() on a Ready manager, alone and with every library call
\* succeeding, returns a fresh live page at the blank url and leaves the
\* manager ready.
C3_RestartFresh ==
    ( /\ last.op = "restart"
      /\ faults = 0
      /\ \A q \in Callers : q > 1 => pc[q] = "idle"
      /\ {"page", "browser"} \subseteq last.h.tried )
    =>
    ( /\ last.kind = "page"
      /\ last.page # last.h.tdPage
      /\ last.h.ready
      /\ pages[last.page].url = "blank" )

\* C4: from the start of restart's teardown to the end of its
\* re-initialization no other caller is inside a critical section.
C4_RestartOneSection ==
    \A p, q \in Callers :
        (p # q /\ op[p] = "restart" /\ pc[p] # "waitTeardown")
            => pc[q] \notin (InitPcs \cup TeardownPcs)

\* C5: when an initialization raises, the engine and page slots are absent.
C5_NoPartialHandle ==
    last.kind = "raise" => (last.h.post[2] = None /\ last.h.post[3] = None)

\* C6: every page a call returns is, at the moment of the return, open and
\* owned by a connected engine (is_initialized() holds).
C6_ReturnsLivePage == last.kind = "page" => last.h.ready

\* C7: an acquisition that finds the stored page closed never returns that
\* page: unless a step of the re-initialization fails it returns a new open
\* page, stored in the page slot, and leaves the manager ready.
C7_CrashRecovery ==
    (last.op = "ensure" /\ last.h.prev # None /\ last.h.dead) =>
        /\ last.kind \in {"page", "raise"}
        /\ last.kind = "raise" => "init" \in last.h.broke
        /\ last.kind = "page" =>
              /\ last.page # last.h.prev
              /\ ~pages[last.page].closed
              /\ last.h.post[3] = last.page
              /\ last.h.ready

\* The stored page had been closed while its engine stayed connected (a tab
\* crash), and the acquisition returned a new page with the manager ready.
C7_Witness ==
    /\ last.op = "ensure"
    /\ last.h.prev # None
    /\ last.h.dead
    /\ engines[pages[last.h.prev].engine].connected
    /\ last.kind = "page"
    /\ last.page # last.h.prev
    /\ last.h.ready

\* C8: cleanup() never raises and leaves the three slots absent, whatever the
\* state it starts in.
C8_CleanupTotal ==
    last.op = "cleanup" =>
        /\ last.kind = "void"
        /\ last.h.post = <<None, None, None>>
        /\ ~last.h.ready

\* A cleanup that found no handle completes after an earlier cleanup had torn
\* down a Ready manager (nothing failed, and only cleanup clears the host slot).
C8_Witness ==
    /\ last.op = "cleanup"
    /\ last.kind = "void"
    /\ last.h.tdPage = None /\ last.h.tdBrowser = None /\ last.h.tdHost = None
    /\ faults = 0
    /\ Len(pages) = 1 /\ pages[1].closed /\ ~hosts[1]

\* What _cleanup_browser and the reset after it have achieved, for a call
\* with history h: each resource stored at the start is gone unless its own
\* close raised, and the engine and page slots were cleared.
TeardownDone(h) ==
    /\ (h.tdPage # None /\ "page" \notin h.broke) => pages[h.tdPage].closed
    /\ (h.tdBrowser # None /\ "browser" \notin h.broke) => ~engines[h.tdBrowser].connected
    /\ (h.tdHost # None /\ "host" \notin h.broke) => ~hosts[h.tdHost]
    /\ h.left # <<>>
    /\ h.left[2] = None
    /\ h.left[3] = None

\* C9: whichever of the three teardown steps raise, the other steps still
\* take effect, nothing propagates out of cleanup() or of restart's teardown
\* (a restart raises only from its re-initialization), and the slots are
\* reset (all three by cleanup, engine and page by restart).
C9_TeardownBestEffort ==
    /\ last.op \in {"restart", "cleanup"} =>
          /\ TeardownDone(last.h)
          /\ last.kind = "raise" => (last.op = "restart" /\ "init" \in last.h.broke)
          /\ last.op = "cleanup" => last.h.left = <<None, None, None>>
    /\ \A p \in Callers :
          (op[p] = "restart" /\ pc[p] \in InitPcs \cup {"waitEnsure"})
              => TeardownDone(hist[p])

\* Closing the page, closing the engine and stopping the host all raised:
\* each step was still attempted, cleanup() returned and the slots are clear.
C9_Witness ==
    /\ last.op = "cleanup"
    /\ last.kind = "void"
    /\ last.h.tried = {"page", "browser", "host"}
    /\ last.h.broke = {"page", "browser", "host"}
    /\ last.h.post = <<None, None, None>>

\* C10: at most one caller is inside an initialization, at most one inside a
\* teardown, never both at once, and whoever is inside holds the lock.
C10_MutualExclusion ==
    LET ini == {p \in Callers : pc[p] \in InitPcs}
        td == {p \in Callers : pc[p] \in TeardownPcs}
    IN  /\ Cardinality(ini) <= 1
        /\ Cardinality(td) <= 1
        /\ ini = {} \/ td = {}
        /\ (ini \cup td # {}) => locked

\* One caller launches while another waits to tear down.
C10_Witness ==
    \E p, q \in Callers : pc[p] = "launching" /\ pc[q] = "waitTeardown"

\* C11: an initialization failure is re-raised by its cause: a timeout (the
\* built-in TimeoutError or the library's TimeoutError) as TimeoutError, any
\* other library Error as PlaywrightError, anything else as RuntimeError.
C11_ClassifiedByCause ==
    last.kind = "raise" =>
        /\ last.cause \in {"TimeoutError", "PlaywrightTimeoutError"} => last.err = "TimeoutError"
        /\ last.cause = "PlaywrightError" => last.err = "PlaywrightError"
        /\ last.cause = "Exception" => last.err = "RuntimeError"

\* C12: is_initialized() returns true exactly when an engine is stored and
\* connected and a page is stored and not closed; it is true when an
\* acquisition on a manager without a page returns, and false when cleanup
\* returns.
C12_ReadyIffLive ==
    /\ probe.fn = "is_initialized" =>
            (probe.ready <=> /\ browser # None
                             /\ engines[browser].connected
                             /\ page # None
                             /\ ~pages[page].closed)
    /\ last.op = "ensure" /\ last.kind = "page" /\ last.h.prev = None => last.h.ready
    /\ last.op = "cleanup" /\ last.kind = "void" => ~last.h.ready

\* is_initialized() is false with an open page stored, its engine gone.
C12_Witness ==
    /\ probe.fn = "is_initialized"
    /\ ~probe.ready
    /\ page # None
    /\ ~pages[page].closed
    /\ browser # None
    /\ ~engines[browser].connected

\* C13: a step in which is_initialized(), get_current_url() or
\* get_viewport_size() runs starts, launches, opens, closes and stops nothing
\* and leaves the three slots, the lock and every call in progress as they
\* were; get_current_url() returns the stored page's URL when the manager is
\* ready and None otherwise.
C13_AccessorsReadOnly ==
    [][probe'.fn # "none" =>
        /\ UNCHANGED <<playwright, browser, page, hosts, engines, pages,
                       locked, waiters, pc, op, res, context, calls>>
        /\ probe'.fn = "get_current_url" =>
                probe'.url = IF /\ browser # None
                                /\ engines[browser].connected
                                /\ page # None
                                /\ ~pages[page].closed
                             THEN pages[page].url
                             ELSE NoUrl]_vars

\* get_current_url() returned None with a closed page stored.
C13_Witness ==
    /\ probe.fn = "get_current_url"
    /\ probe.url = NoUrl
    /\ page # None
    /\ pages[page].closed

\* C14: get_viewport_size() returns the configured width and height, whether
\* it reads them from the live page or, the manager not being ready, from the
\* configuration; it can run in every state.
C14_ViewportConfigured ==
    /\ probe.fn = "get_viewport_size" =>
            probe.size = [width |-> ViewportWidth, height |-> ViewportHeight]
    /\ ENABLED ProbeViewportSize

\* get_viewport_size() read the size from the live page.
C14_Witness ==
    /\ probe.fn = "get_viewport_size"
    /\ page # None
    /\ ~pages[page].closed
    /\ browser # None
    /\ engines[browser].connected

\* C15: an ensure_browser that finds a stored page that is not closed returns
\* that very page, makes no launch and leaves the three slots as they were,
\* so every caller served while the page lives holds the same page and sees
\* what the others did to it.
C15_StableHandle ==
    last.op = "ensure" /\ last.h.prev # None /\ ~last.h.dead =>
        /\ last.kind = "page"
        /\ last.page = last.h.prev
        /\ last.h.launches = 0
        /\ last.h.post[3] = last.h.prev
        /\ page = last.page

\* A second caller is handed the page the first one has navigated.
C15_Witness ==
    /\ last.op = "ensure"
    /\ last.h.prev # None
    /\ last.page = last.h.prev
    /\ pages[last.page].url = "site"
    /\ \A p \in Callers : pc[p] = "done" /\ res[p].kind = "page" /\ res[p].page = last.page

\* C16: every tool handler ends by returning an envelope, with success true
\* or with success false and an error type, whatever validation, get_page()
\* (TimeoutError, PlaywrightError, RuntimeError) and the browser operations
\* did: no exception leaves a handler.
C16_NoExceptionEscapes ==
    /\ rpc.event # "escaped"
    /\ rpc.event = "returned" => (rpc.success <=> rpc.type = "none")

\* get_page_info answers a RuntimeError of get_page() with an envelope.
C16_Witness ==
    /\ rpc.event = "returned"
    /\ rpc.tool = "get_page_info"
    /\ rpc.at = "get_page"
    /\ rpc.cls = "RuntimeError"
    /\ ~rpc.success

\* The arguments the tools are to refuse: a url without the http:// or
\* https:// prefix or a wait_until that is none of the three, a selector that
\* is empty or blank, a path that is empty or whose extension is none of
\* .png, .jpg, .jpeg.
Refused(name, args) ==
    CASE name = "navigate" ->
            \/ ~(StartsWith(args.a, SchemeHttp) \/ StartsWith(args.a, SchemeHttps))
            \/ args.w \notin {"load", "domcontentloaded", "networkidle"}
      [] name \in {"click_element", "fill_input", "extract_text"} ->
            \A i \in 1..Len(args.a) : args.a[i] \in Whitespace
      [] name = "screenshot" ->
            \/ args.a = <<>>
            \/ Lower(PathSuffix(args.a)) \notin ValidExtensions
      [] OTHER -> FALSE

\* C17: a tool call with arguments to refuse is answered in the step it comes
\* in, with success false and ValidationError, and that step starts and
\* launches nothing, leaves the manager's slots, the lock, the hosts, engines
\* and pages as they were, and makes nothing in the file system.
C17_ValidationShortCircuits ==
    [][rpc'.started /\ Refused(rpc'.tool, rpc'.args) =>
        /\ rpc'.event = "returned"
        /\ ~rpc'.success
        /\ rpc'.type = "ValidationError"
        /\ rpc'.issued = <<>>
        /\ UNCHANGED <<playwright, browser, page, locked, waiters, hosts, engines,
                       pages, fs, faults>>]_vars

\* screenshot refuses a .txt path on a manager that was never initialized.
C17_Witness ==
    /\ rpc.started
    /\ rpc.tool = "screenshot"
    /\ rpc.args.a = <<"a",".","t","x","t">>
    /\ rpc.type = "ValidationError"
    /\ playwright = None
    /\ hosts = <<>>
    /\ fs = {}

\* C18: the error_type of every failure envelope is one of the seven.
C18_ErrorTypeKnown ==
    rpc.event = "returned" /\ ~rpc.success => rpc.type \in ErrorTypes

\* A failed launch, answered by the catch-all clause through
\* parse_playwright_error.
C18_Witness ==
    /\ rpc.event = "returned"
    /\ ~rpc.success
    /\ rpc.at = "get_page"
    /\ rpc.cls = "PlaywrightError"
    /\ rpc.type = "UnknownError"

\* C19: one call of ensure_browser, direct or from a handler, calls
\* chromium.launch at most once, and a handler awaits each of its browser
\* operations at most once; a failed initialization raises to its caller and
\* a failed operation is answered with a failure envelope.
C19_NoRetry ==
    /\ \A p \in Callers : hist[p].launches <= 1
    /\ last.op # "none" => last.h.launches <= 1
    /\ last.op = "ensure" /\ last.h.broke # {} => last.kind = "raise"
    /\ \A p \in Callers :
        \A i, j \in DOMAIN tool[p].issued : tool[p].issued[i] = tool[p].issued[j] => i = j
    /\ \A i, j \in DOMAIN rpc.issued : rpc.issued[i] = rpc.issued[j] => i = j
    /\ rpc.cls # "none" => ~rpc.success

\* navigate's goto failed and was answered after that one attempt.
C19_Witness ==
    /\ rpc.event = "returned"
    /\ ~rpc.success
    /\ rpc.at = "goto"
    /\ rpc.issued = <<"goto">>

\* C20: the library's TimeoutError in a browser operation is answered by
\* click_element, fill_input and extract_text with ElementNotFound and by
\* navigate and screenshot with TimeoutError, in a later step than the one
\* the call came in with.
C20_TimeoutByTool ==
    rpc.event = "returned" /\ rpc.cls = "PlaywrightTimeoutError" =>
        /\ ~rpc.success
        /\ ~rpc.started
        /\ rpc.tool \in {"click_element", "fill_input", "extract_text"} =>
                rpc.type = "ElementNotFound"
        /\ rpc.tool \in {"navigate", "screenshot"} => rpc.type = "TimeoutError"

\* extract_text's wait_for timed out.
C20_Witness ==
    /\ rpc.event = "returned"
    /\ rpc.tool = "extract_text"
    /\ rpc.at = "wait_for"
    /\ rpc.cls = "PlaywrightTimeoutError"
    /\ rpc.type = "ElementNotFound"

Marked == {fn.marks[i] : i \in DOMAIN fn.marks}

\* The places in Markers of the DNS, connection refused and ssl/certificate
\* markers.
NetworkMarks == 1..5

MentionsTimeout(suggestion) == Contains(Lower(suggestion), MarkTimeout)

MentionsDns(suggestion) == Contains(suggestion, <<"D", "N", "S">>)

\* C23 as claimed: every timeout-class exception is classified TimeoutError
\* with a suggestion that mentions the timeout, and every error whose message
\* contains net::ERR_NAME_NOT_RESOLVED, in any letter case, NetworkError with
\* a suggestion that mentions DNS.
C23_TimeoutClassAlwaysTimeout ==
    fn.name = "parse_playwright_error" /\ fn.done =>
        /\ fn.cls \in {"TimeoutError", "PlaywrightTimeoutError"} =>
                fn.out.type = "TimeoutError" /\ MentionsTimeout(fn.out.suggestion)
        /\ 1 \in Marked =>
                fn.out.type = "NetworkError" /\ MentionsDns(fn.out.suggestion)

\* C23, amended: a timeout-class exception whose message contains none of the
\* DNS, connection refused and ssl/certificate markers is classified
\* TimeoutError with a suggestion that mentions the timeout, and every error
\* whose message contains net::ERR_NAME_NOT_RESOLVED, in any letter case,
\* NetworkError with a suggestion that mentions DNS.
C23_TimeoutUnlessNetwork ==
    fn.name = "parse_playwright_error" /\ fn.done =>
        /\ (fn.cls \in {"TimeoutError", "PlaywrightTimeoutError"}
                /\ Marked \cap NetworkMarks = {}) =>
                fn.out.type = "TimeoutError" /\ MentionsTimeout(fn.out.suggestion)
        /\ 1 \in Marked =>
                fn.out.type = "NetworkError" /\ MentionsDns(fn.out.suggestion)

\* The built-in TimeoutError("Operation timed out"), whose message holds no
\* marker, was classified TimeoutError.
C23_Witness ==
    /\ fn.name = "parse_playwright_error"
    /\ fn.done
    /\ fn.cls = "TimeoutError"
    /\ fn.marks = <<>>
    /\ fn.msg = BaseText
    /\ fn.out.type = "TimeoutError"

\* The steps of a teardown come in the order page, browser, host.
InOrder(order) ==
    \A i, j \in DOMAIN order :
        i < j => <<order[i], order[j]>> \in {<<"page", "browser">>, <<"page", "host">>,
                                             <<"browser", "host">>}

\* A teardown with history h has been through its three steps: each was
\* attempted, or its resource was absent or no longer live.
AllAttempted(h) ==
    /\ InOrder(h.order)
    /\ "page" \notin h.tried => (h.tdPage = None \/ pages[h.tdPage].closed)
    /\ "browser" \notin h.tried => (h.tdBrowser = None \/ ~engines[h.tdBrowser].connected)
    /\ "host" \notin h.tried => h.tdHost = None

\* C24: cleanup() and restart's teardown attempt the page close, then the
\* engine close, then the host stop; a step is attempted only with its
\* resource stored and live when the step begins (page not closed, engine
\* connected, host stored), the slots stay as they are while the steps run,
\* and they are reset only when each step was attempted or had nothing live
\* to work on.
C24_TeardownOrder ==
    /\ [](/\ \A p \in Callers :
                /\ InOrder(hist[p].order)
                /\ pc[p] \in TeardownPcs =>
                      /\ Slots(Cur) = <<hist[p].tdHost, hist[p].tdBrowser, hist[p].tdPage>>
                      /\ hist[p].left = <<>>
                /\ hist[p].left # <<>> => AllAttempted(hist[p])
          /\ last.op \in {"restart", "cleanup"} =>
                /\ last.h.left # <<>>
                /\ AllAttempted(last.h))
    /\ [][\A p \in Callers :
            /\ (pc'[p] = "closingPage" /\ pc[p] # "closingPage") =>
                    /\ page' # None
                    /\ ~pages'[page'].closed
                    /\ hist'[p].order = <<"page">>
            /\ (pc'[p] = "closingBrowser" /\ pc[p] # "closingBrowser") =>
                    /\ browser' # None
                    /\ engines'[browser'].connected
                    /\ hist'[p].order \in {<<"browser">>, <<"page", "browser">>}
            /\ (pc'[p] = "stopping" /\ pc[p] # "stopping") =>
                    /\ playwright' # None
                    /\ hist'[p].order[Len(hist'[p].order)] = "host"]_vars

\* A teardown that found the stored page closed and its engine connected:
\* it attempted the engine close, then the host stop, and not the page close.
C24_Witness ==
    /\ last.op \in {"restart", "cleanup"}
    /\ last.h.tdPage # None
    /\ pages[last.h.tdPage].closed
    /\ last.h.order = <<"browser", "host">>
    /\ last.h.broke = {}

\* The priority of each marker of Markers, and of a timeout-class exception
\* (4): DNS, connection refused, ssl/certificate, timeout, not visible, not
\* found, disabled/readonly; 8 is the default.
MarkerRule == <<1, 1, 2, 3, 3, 4, 5, 6, 6, 7, 7>>

RuleType ==
    <<"NetworkError", "NetworkError", "NetworkError", "TimeoutError", "ElementNotFound",
      "ElementNotFound", "InvalidElementState", "UnknownError">>

RuleSuggestion ==
    <<SuggestDns, SuggestRefused, SuggestSsl, SuggestTimeout, SuggestNotVisible,
      SuggestNotFound, SuggestInvalidState, SuggestUnknown>>

\* The highest priority among the markers the message was made of and the
\* class of the exception.
ExpectedRule ==
    LET R == {MarkerRule[m] : m \in Marked}
             \cup (IF fn.cls \in {"TimeoutError", "PlaywrightTimeoutError"} THEN {4} ELSE {})
             \cup {8}
    IN  CHOOSE r \in R : \A q \in R : r <= q

\* C25: parse_playwright_error returns for every error, and what it returns
\* is decided by the highest-priority marker in the message, whatever the
\* letter case and the place of the markers: DNS, then connection refused,
\* then ssl/certificate (NetworkError), then timeout in the message or a
\* timeout-class exception (TimeoutError), then not visible and not found
\* (ElementNotFound), then disabled/readonly (InvalidElementState), else
\* UnknownError.
C25_FirstMatchPriority ==
    fn.name = "parse_playwright_error" /\ fn.done =>
        /\ fn.out.type = RuleType[ExpectedRule]
        /\ fn.out.suggestion = RuleSuggestion[ExpectedRule]

\* A message with 'element is not visible' and then 'timeout', of an exception
\* that is no timeout, was classified TimeoutError.
C25_Witness ==
    /\ fn.name = "parse_playwright_error"
    /\ fn.done
    /\ fn.cls = "Exception"
    /\ fn.marks = <<7, 6>>
    /\ fn.out.type = "TimeoutError"

\* C26: chromium.launch is only awaited on a host that is running, and the
\* host stored in _playwright, if any, has not been stopped.
C26_HostRunning ==
    /\ \A p \in Callers : pc[p] = "launching" => (playwright # None /\ hosts[playwright])
    /\ playwright # None => hosts[playwright]

\* The callers inside a critical section.
Inside == {p \in Callers : pc[p] \in InitPcs \cup TeardownPcs}

\* C27: a call that returns or raises leaves the lock free, also when its
\* initialization failed; the lock is held exactly while one caller is
\* inside a critical section, so no caller waits for a lock it holds itself,
\* and a restart waits for its re-initialization only with its teardown over
\* and the lock released; and with the event loop running every ready
\* coroutine and every library call coming to an end, from every state with
\* calls in progress, waiting for the lock or not, a state is reached in
\* which all of them have completed.
C27_LockReleasedAndLive ==
    /\ [](/\ last.op # "none" => ~locked
          /\ locked <=> Cardinality(Inside) = 1
          /\ \A p \in Callers :
                pc[p] \in {"waitEnsure", "waitTeardown"} =>
                    /\ p \notin Inside
                    /\ \E i \in DOMAIN waiters : waiters[i] = p
          /\ \A p \in Callers :
                (op[p] = "restart" /\ pc[p] = "waitEnsure") => hist[p].left # <<>>)
    /\ (\E p \in Callers : pc[p] \notin {"idle", "done"})
            ~> (\A p \in Callers : pc[p] \in {"idle", "done"})

\* A caller that had waited for the lock while another's initialization
\* failed has completed its own call with a page.
C27_Witness ==
    /\ last.op = "ensure"
    /\ "waitEnsure" \in last.h.waited
    /\ last.kind = "page"
    /\ \E q \in Callers : pc[q] = "done" /\ res[q].kind = "raise"
    /\ ~locked

\* C28: handle consistency.  In every reachable state, the states between
\* two awaits of an initialization or a teardown included (each is a state of
\* its own here, and is_initialized() takes no lock), whenever
\* is_initialized() is true the stored page is a page of the stored engine:
\* the manager is never ready with a page of another, older engine.
C28_HandleConsistency ==
    IsInitialized(Cur) => pages[page].engine = browser

\* The manager is ready on a second engine while a caller is inside a
\* teardown or an initialization, and the page of the older engine exists.
C28_Witness ==
    /\ IsInitialized(Cur)
    /\ pages[page].engine = browser
    /\ \E g \in DOMAIN pages : pages[g].engine # browser
    /\ \E p \in Callers : pc[p] \in {"closingPage", "closingBrowser", "stopping"}

\* Nothing the manager ever started is running.
NothingRuns ==
    /\ \A h \in DOMAIN hosts : ~hosts[h]
    /\ \A e \in DOMAIN engines : ~engines[e].connected

\* Every running host is the stored one.
NoStrayHost == \A h \in DOMAIN hosts : hosts[h] => h = playwright

\* C29: no leaked browser after teardown.  An engine runs only while its host
\* does; a running host the manager has no handle of comes only from a
\* cleanup() whose stop() raised; and when there is none, a cleanup() that
\* returns with no close operation having raised leaves no host running and
\* no engine connected, whatever calls of ensure_browser and restart_browser,
\* failed initializations and out-of-band page closes came before it.
C29_NoLeakAfterCleanup ==
    /\ [](\A e \in DOMAIN engines : engines[e].connected => hosts[engines[e].host])
    /\ [][(NoStrayHost /\ ~NoStrayHost') =>
              (last'.op = "cleanup" /\ "host" \in last'.h.broke)]_vars
    /\ [][(NoStrayHost /\ last'.op = "cleanup" /\ last'.h.broke = {}) =>
              NothingRuns']_vars

\* cleanup() has returned, none of its closes having raised, from a manager
\* that held the second engine of its host, the first one abandoned after a
\* fault; nothing runs.
C29_Witness ==
    /\ last.op = "cleanup"
    /\ last.h.broke = {}
    /\ last.h.tried = {"page", "browser", "host"}
    /\ last.h.tdBrowser = 2
    /\ engines[1].host = engines[2].host
    /\ faults >= 1
    /\ NothingRuns

============================================================================
